---- MODULE Spec2Model ----
(***************************************************************************)
(* The review / revision loop of the hybrid workflow                       *)
(* (src/workflows/hybrid_workflow.py): quality_check_node,                 *)
(* route_after_quality_check, revision_node, route_after_revision,         *)
(* editing_node, citation_node and decision_router, run one after the      *)
(* other on the single ResearchState dictionary of a run.                  *)
(*                                                                         *)
(* The state dictionary is one mutable object: what a node or a router     *)
(* assigns to it is what the next node or router reads.                    *)
(*                                                                         *)
(* Abstractions.  Texts are kept up to what the code looks at: a feedback  *)
(* is None, "" or some non-empty text ("text"); a draft is empty, the      *)
(* first draft or the draft written by the n-th revision (its revision     *)
(* note carries n).  The errors list is kept as the set of the kinds of    *)
(* its messages (holding 'AuthenticationError' or not), tasks_completed as *)
(* the number of occurrences of each task name.                            *)
(* Time stamps, priorities and issue lists are never branched on and are   *)
(* left out; the fields of the reviewer's JSON have the documented types.  *)
(*                                                                         *)
(* Spec and SpecDefault follow one run.  SpecRuns follows the files that   *)
(* save_version_to_history writes when two runs work in one directory:     *)
(* there each run is reduced to the sequence of its saves.                 *)
(***************************************************************************)
EXTENDS Integers, Sequences, FiniteSets, Bags, TLC

\* ---------------------------------------------------------------- bounds
\* largest max_revisions a run of Spec is started with
MaxRevisionsBound == 2
\* executions of quality_check_node a run is followed for, beyond the
\* max_revisions + 1 the loop is meant to need
MaxExtraChecks == 1
\* largest number of revisions a run of SpecRuns goes through
MaxRunRevisions == 1
\* calls of run() an EnhancedWorkflow instance is followed for
MaxEnhancedRuns == 2

\* ------------------------------------------------------------- constants
None == "None"
\* review_score before any review (the key is absent or None)
NoScore == 0
\* max_revisions when the caller gives none
DefaultMaxRevisions == 3
DefaultScore == 5
FailedReviewScore == 3
ForceAcceptScore == 7
\* characters of the research goal a snapshot's file name keeps
SnapshotGoalChars == 20
\* max_revisions of an EnhancedWorkflow
EnhancedMaxRevisions == 2
\* the overall quality score under which a review asks for a revision
RevisionScoreThreshold == 20

\* the decision strings a reviewer's JSON can carry: the three documented
\* ones, the one the router reserves for the system, and any other
Decisions == {"ACCEPT", "REVISE", "REJECT", "FORCE_ACCEPT", "OTHER"}
Feedbacks == {"", "text"}
ReviewerScores == {8}
\* texts of the exceptions of the publishing calls
ExceptionMessages == {"error", "AuthenticationError"}

NoDraft == [kind |-> "empty", n |-> 0]
InitialDraft == [kind |-> "draft", n |-> 0]
RevisedDraft(n) == [kind |-> "revised", n |-> n]

\* str is falsy when it is None or ""
Falsy(s) == s = None \/ s = ""

VARIABLES
    pc,                          \* the node or router that runs next
    draft_content,
    revision_count,
    max_revisions,
    version_history,
    current_version,
    revision_history,
    review_decision,
    review_feedback,
    review_score,
    force_accept_reason,
    final_decision_maker,
    workflow_completion_status,
    is_in_revision_loop,
    quality_gates_passed,
    tasks_completed,
    errors,
    final_paper_content,
    complete_paper_content,
    data_file_path,
    data_analysis_results,
    outline_data,
    combined_points,
    qc_runs,                     \* history: executions of quality_check_node
    reviewer_calls,              \* history: calls of the reviewer
    revision_runs,               \* history: executions of revision_node
    loop_exits,                  \* history: times the review router chose editing
    last_step,                   \* history: the node or router that ran last
    runs,                        \* SpecRuns: the concurrent runs' version counters
    snapshot_files,              \* SpecRuns: the snapshot files of the directory
    enhanced                     \* SpecEnhanced: the EnhancedWorkflow instance and its run

vars == <<pc, draft_content, revision_count, max_revisions, version_history,
          current_version, revision_history, review_decision, review_feedback,
          review_score, force_accept_reason, final_decision_maker,
          workflow_completion_status, is_in_revision_loop, quality_gates_passed,
          tasks_completed, errors, final_paper_content, complete_paper_content,
          data_file_path, data_analysis_results, outline_data, combined_points,
          qc_runs, reviewer_calls, revision_runs, loop_exits, last_step,
          runs, snapshot_files, enhanced>>

\* the part of the state Spec moves
loopVars == <<pc, draft_content, revision_count, max_revisions, version_history,
              current_version, revision_history, review_decision, review_feedback,
              review_score, force_accept_reason, final_decision_maker,
              workflow_completion_status, is_in_revision_loop, quality_gates_passed,
              tasks_completed, errors, final_paper_content, complete_paper_content,
              data_file_path, data_analysis_results, outline_data, combined_points,
              qc_runs, reviewer_calls, revision_runs, loop_exits, last_step>>

\* the part of the state only SpecRuns moves
snapshotVars == <<runs, snapshot_files>>

\* the part of the state only SpecEnhanced moves
enhancedVars == <<enhanced>>


\* what ran last: the node or router, how it came out, and the
\* revision_count it started with; for a revision also how its data
\* re-analysis call and its rewriting came out ("-": not run)
Step(node, outcome, count) ==
    [node |-> node, outcome |-> outcome, count |-> count,
     analysis |-> "-", writing |-> "-"]

\* ------------------------------------------------------ tasks_completed
\* tasks_completed is a list that is appended to, searched and, for
\* 'quality_check', reduced by list.remove (one occurrence): a bag.
Task(name) == <<name, 0>>
RevisionTask(n) == <<"revision", n>>
Completed(tasks, t) == BagIn(t, tasks)
AddTask(tasks, t) == tasks (+) SetToBag({t})
\* list.remove(x) guarded by "if x in list"
RemoveTask(tasks, t) == IF BagIn(t, tasks) THEN tasks (-) SetToBag({t}) ELSE tasks

\* --------------------------------------------------- version history
VersionType(kind, n) == [kind |-> kind, n |-> n]

\* (mutant) the record is numbered with the version before the increment
save_version_stale(history, version, content, version_type, count, score) ==
    [current_version |-> version + 1,
     version_history |-> Append(history,
          [version |-> version,
           type |-> version_type,
           content |-> content,
           revision_count |-> count,
           review_score |-> score])]

\* save_version_to_history: the next version number, one record appended.
\* Gives back the two keys it assigns.
save_version_to_history(history, version, content, version_type, count, score) ==
    LET new_version == version + 1
    IN  [current_version |-> new_version,
         version_history |-> Append(history,
              [version |-> new_version,
               type |-> version_type,
               content |-> content,
               revision_count |-> count,
               review_score |-> score])]

\* ---------------------------------------------------- snapshot files
\* A research goal is the sequence of its characters.
Chars(n, c) == [i \in 1..n |-> c]

\* the goals runs are started with: two that differ after the first
\* SnapshotGoalChars characters, and a short one with punctuation
ResearchGoals ==
    {Chars(SnapshotGoalChars, "a") \o <<"1">>,
     Chars(SnapshotGoalChars, "a") \o <<"2">>,
     <<" ", "b", "?">>}

\* c.isalnum() or c in (' ', '-', '_'), for the characters of the goals
IsSafeChar(c) == c \in {"a", "b", "1", "2", " ", "-", "_"}

\* str.strip()
RECURSIVE Strip(_)
Strip(s) ==
    IF s = <<>> THEN s
    ELSE IF Head(s) = " " THEN Strip(Tail(s))
    ELSE IF s[Len(s)] = " " THEN Strip(SubSeq(s, 1, Len(s) - 1))
    ELSE s

\* safe_goal: the goal without the characters a file name should not hold
safe_goal(goal) == Strip(SelectSeq(goal, IsSafeChar))

\* s[:n]
Prefix(s, n) == SubSeq(s, 1, IF Len(s) < n THEN Len(s) ELSE n)

\* filename: veritas_v<version>_<type>_<first characters of safe_goal>.txt,
\* a relative name in the directory the process works in
SnapshotPath(version, version_type, goal) ==
    [version |-> version, type |-> version_type,
     goal |-> Prefix(safe_goal(goal), SnapshotGoalChars)]

\* the runs that share the directory
Runs == {1, 2}

\* a run the caller has not started
NotStarted ==
    [stage |-> "new", research_goal |-> <<>>, auto_save_enabled |-> TRUE,
     current_version |-> 0, version_history |-> <<>>, revision_count |-> 0,
     max_revisions |-> 0]

\* the directory without snapshot files
NoFiles == [p \in {} |-> None]

\* open(filename, 'w') and the writes: the file holds what the run wrote
WriteFile(files, path, text) ==
    [p \in DOMAIN files \cup {path} |-> IF p = path THEN text ELSE files[p]]

\* ------------------------------------------------------------- Init
\* The loop is entered at quality_check with the state the earlier nodes
\* (or the caller) left: writing_node stores the first draft and its
\* version record, its except branch stores a draft without a record, and
\* a state without a draft is what quality_check_node guards against.
DraftRecord ==
    [version |-> 1, type |-> VersionType("draft", 0), content |-> InitialDraft,
     revision_count |-> 0, review_score |-> NoScore]

EntryCases ==
    {[draft |-> InitialDraft, versions |-> <<DraftRecord>>, outline |-> TRUE,
      points |-> TRUE, data |-> FALSE],
     [draft |-> InitialDraft, versions |-> <<DraftRecord>>, outline |-> TRUE,
      points |-> TRUE, data |-> TRUE],
     [draft |-> InitialDraft, versions |-> <<>>, outline |-> FALSE,
      points |-> TRUE, data |-> FALSE],
     [draft |-> InitialDraft, versions |-> <<>>, outline |-> TRUE,
      points |-> FALSE, data |-> TRUE],
     [draft |-> NoDraft, versions |-> <<>>, outline |-> FALSE,
      points |-> FALSE, data |-> FALSE]}

PriorTasks(has_data) ==
    SetToBag({Task("project_planning"), Task("literature_research"),
              Task("integration"), Task("writing")}
             \cup (IF has_data THEN {Task("data_analysis")} ELSE {}))

\* ------------------------------------------------------ EnhancedWorkflow
\* What _needs_revision reads in a review text: whether it holds one of the
\* indicator words, and the number after "overall quality:" if there is one
ReviewScores == {15, 25}
ReviewTexts == [indicator : BOOLEAN, score : {<<>>} \cup {<<n>> : n \in ReviewScores}]
\* the two texts _comprehensive_review gives back when the call brings
\* nothing or raises: neither holds an indicator word or a score
FallbackReview == [indicator |-> FALSE, score |-> <<>>]
\* what the review crew's kickoff can do
ReviewKickoffs ==
    [kind : {"text"}, text : ReviewTexts]
        \cup [kind : {"empty", "raise"}, text : {FallbackReview}]

\* _comprehensive_review: the raw text, or a fallback text
comprehensive_review(kickoff) ==
    IF kickoff.kind = "text" THEN kickoff.text ELSE FallbackReview

\* _needs_revision: an indicator word or a score under the threshold
\* raises revision_count; the answer is yes only while the raised count is
\* under max_revisions
needs_revision(count, limit, text) ==
    LET indicated == \/ text.indicator
                     \/ (text.score # <<>> /\ text.score[1] < RevisionScoreThreshold)
        n == IF indicated THEN count + 1 ELSE count
    IN  [revision_count |-> n, indicated |-> indicated,
         result |-> indicated /\ n < limit]

\* _save_version: the version's type and the revision_count of the moment
save_version(versions, version_type, count) ==
    Append(versions, [type |-> version_type, revision_count |-> count])

\* the guard of the second review cycle
SecondCycleRuns(count, limit) == count < limit

\* EnhancedWorkflow() as __init__ leaves it, no run started; run counts the
\* calls of run(), performed the revisions the current run made, cycle2
\* and indicated2 what became of the current run's second review cycle
FreshInstance ==
    [pc |-> "idle", run |-> 0,
     revision_count |-> 0, max_revisions |-> EnhancedMaxRevisions,
     versions |-> <<>>,
     performed |-> 0, cycle2 |-> "-", indicated2 |-> "-"]


InitWith(limits) ==
    /\ pc = "quality_check"
    /\ \E e \in EntryCases :
          /\ draft_content = e.draft
          /\ version_history = e.versions
          /\ current_version = Len(e.versions)
          /\ outline_data = e.outline
          /\ combined_points = e.points
          /\ data_file_path = e.data
    /\ revision_count = 0
    /\ max_revisions \in limits
    /\ revision_history = <<>>
    /\ review_decision = None
    /\ review_feedback = None
    /\ review_score = NoScore
    /\ force_accept_reason = None
    /\ final_decision_maker = None
    /\ workflow_completion_status = None
    /\ is_in_revision_loop = FALSE
    /\ quality_gates_passed = <<>>
    /\ tasks_completed = PriorTasks(data_file_path)
    /\ data_analysis_results = IF data_file_path THEN "analysis" ELSE None
    /\ errors = {}
    /\ final_paper_content = None
    /\ complete_paper_content = None
    /\ qc_runs = 0
    /\ reviewer_calls = 0
    /\ revision_runs = 0
    /\ loop_exits = 0
    /\ last_step = Step("start", "-", 0)
    /\ runs = [r \in Runs |-> NotStarted]
    /\ snapshot_files = NoFiles
    /\ enhanced = FreshInstance

Init == InitWith(0..MaxRevisionsBound)


\* ------------------------------------------------- quality_check_node
\* What one call of the reviewer (review_crew.kickoff) can give back:
\*   json          a JSON object with decision, feedback and score
\*   plaintext     text without braces
\*   badjson       braces around text json.loads rejects
\*   empty         no result, or a result whose raw text is empty
\*   raise         the call raises
ReviewerOutcomes ==
    {[kind |-> k, decision |-> d, feedback |-> f, score |-> s, msg |-> "-"] :
        k \in {"json"}, d \in Decisions, f \in Feedbacks, s \in ReviewerScores}
    \cup
    {[kind |-> k, decision |-> "-", feedback |-> "-", score |-> 0, msg |-> "-"] :
        k \in {"plaintext", "badjson", "empty"}}
    \cup
    {[kind |-> "raise", decision |-> "-", feedback |-> "-", score |-> 0, msg |-> "error"]}

\* (mutant) a result that cannot be read counts as an acceptance
ParseReviewLenient(o) ==
    CASE o.kind = "json" ->
             [decision |-> o.decision, feedback |-> o.feedback, quality_score |-> o.score]
      [] OTHER ->
             [decision |-> "ACCEPT", feedback |-> "", quality_score |-> DefaultScore]

\* The verdict the node works out of a reviewer result (the if / else
\* ladder around json.loads).
ParseReview(o) ==
    CASE o.kind = "json" ->
             [decision |-> o.decision, feedback |-> o.feedback, quality_score |-> o.score]
      [] o.kind \in {"plaintext", "badjson"} ->
             [decision |-> "REVISE", feedback |-> "text", quality_score |-> DefaultScore]
      [] OTHER ->
             [decision |-> "REVISE", feedback |-> "text", quality_score |-> FailedReviewScore]

\* (mutant) the limit check lets the cycle at the limit through
LimitReachedLate(count, limit) == count > limit

\* the revision limit check of quality_check_node
LimitReached(count, limit) == count >= limit

\* the record quality_check_node appends to revision_history
HistoryEntry(number, decision, feedback, score, maker) ==
    [revision_number |-> number, decision |-> decision, feedback |-> feedback,
     quality_score |-> score, decision_maker |-> maker]

\* the message an except branch appends to errors
ErrorOf(where, msg) == IF msg = "AuthenticationError" THEN msg ELSE "error"

\* (mutant) the snapshot is labelled with the count, not the cycle
ReviewVersionTypeOfCount(count) == VersionType("review", count)

\* the type of the version saved before a review: review_<count + 1>
ReviewVersionType(count) == VersionType("review", count + 1)

QualityCheckNoContent ==
    /\ draft_content = NoDraft
    /\ errors' = errors \cup {ErrorOf("quality_check", "no draft")}
    /\ review_decision' = "REJECT"
    /\ review_feedback' = "text"
    /\ workflow_completion_status' = "FAILED_NO_CONTENT"
    /\ last_step' = Step("quality_check", "no_content", revision_count)
    /\ UNCHANGED <<version_history, current_version, revision_history, review_score,
                   force_accept_reason, final_decision_maker, tasks_completed,
                   reviewer_calls>>

\* (mutant) the final record is filed as a verdict of the reviewer
final_record_of_reviewer(count, feedback) ==
    HistoryEntry(count + 1, "ACCEPT", feedback, ForceAcceptScore, "AI_REVIEWER")

\* final_record: the entry the node appends when it force-accepts
final_record(count, feedback) ==
    HistoryEntry(count + 1, "FORCE_ACCEPT", feedback, ForceAcceptScore, "SYSTEM")

QualityCheckForceAccept ==
    /\ draft_content # NoDraft
    /\ LimitReached(revision_count, max_revisions)
    /\ review_decision' = "ACCEPT"
    /\ force_accept_reason' = "max revisions"
    /\ final_decision_maker' = "SYSTEM"
    /\ workflow_completion_status' = "COMPLETED_FORCE_ACCEPT"
    /\ review_feedback' = "text"
    /\ revision_history' = Append(revision_history,
                                  final_record(revision_count, "text"))
    /\ last_step' = Step("quality_check", "force_accept", revision_count)
    /\ UNCHANGED <<review_score, tasks_completed, errors, reviewer_calls>>

QualityCheckReview ==
    /\ draft_content # NoDraft
    /\ ~LimitReached(revision_count, max_revisions)
    /\ \E o \in ReviewerOutcomes :
          LET v == ParseReview(o) IN
          /\ reviewer_calls' = reviewer_calls + 1
          /\ last_step' = Step("quality_check", o.kind, revision_count)
          /\ UNCHANGED <<force_accept_reason, final_decision_maker,
                         workflow_completion_status>>
          /\ IF o.kind = "raise"
             THEN \* kickoff raised: nothing is recorded, the except branch
                  \* asks for a revision
                  /\ errors' = errors \cup {ErrorOf("quality_check", o.msg)}
                  /\ review_decision' = "REVISE"
                  /\ review_feedback' = "text"
                  /\ UNCHANGED <<revision_history, review_score, tasks_completed>>
             ELSE /\ revision_history' = Append(revision_history,
                         HistoryEntry(revision_count + 1, v.decision, v.feedback,
                                      v.quality_score, "AI_REVIEWER"))
                  /\ review_score' = v.quality_score
                  /\ review_decision' = v.decision
                  /\ review_feedback' = v.feedback
                  /\ tasks_completed' = AddTask(tasks_completed, Task("quality_check"))
                  /\ UNCHANGED errors

QualityCheck ==
    /\ pc = "quality_check"
    /\ qc_runs < max_revisions + 1 + MaxExtraChecks
    /\ qc_runs' = qc_runs + 1
    /\ is_in_revision_loop' = TRUE
    /\ pc' = "route_after_quality_check"
    /\ \/ QualityCheckNoContent
       \/ /\ LET saved == save_version_to_history(version_history, current_version,
                              draft_content, ReviewVersionType(revision_count),
                              revision_count, review_score)
             IN  /\ version_history' = saved.version_history
                 /\ current_version' = saved.current_version
          /\ \/ QualityCheckForceAccept
             \/ QualityCheckReview
    /\ UNCHANGED <<draft_content, revision_count, max_revisions, quality_gates_passed,
                   final_paper_content, complete_paper_content, data_file_path,
                   data_analysis_results, outline_data, combined_points,
                   revision_runs, loop_exits,
                   runs, snapshot_files, enhanced>>


\* ------------------------------------------- route_after_quality_check
\* (mutant) the router sends every verdict but ACCEPT back to revision
\* while the limit is not reached
RouteBranchRevisesRejected(decision, count, limit, is_force_accept) ==
    IF is_force_accept \/ decision = "FORCE_ACCEPT" THEN "force_accept"
    ELSE IF decision = "ACCEPT" THEN "accept"
    ELSE IF count < limit THEN "revise"
    ELSE "protect"

\* (mutant) the router looks at the decision ACCEPT before it looks at the
\* forced accept
RouteBranchAcceptFirst(decision, count, limit, is_force_accept) ==
    IF decision = "ACCEPT" THEN "accept"
    ELSE IF is_force_accept \/ decision = "FORCE_ACCEPT" THEN "force_accept"
    ELSE IF decision = "REVISE" /\ count < limit THEN "revise"
    ELSE "protect"

\* The branch the router takes: its if / elif / else ladder.
RouteBranch(decision, count, limit, is_force_accept) ==
    IF is_force_accept \/ decision = "FORCE_ACCEPT" THEN "force_accept"
    ELSE IF decision = "ACCEPT" THEN "accept"
    ELSE IF decision = "REVISE" /\ count < limit THEN "revise"
    ELSE "protect"

\* (mutant) the gate records the default score
PassedGateDefault(score) == [gate |-> "quality_check_passed", score |-> DefaultScore]

\* the entry the router appends to quality_gates_passed
PassedGate(score) == [gate |-> "quality_check_passed", score |-> score]

\* (mutant) the router counts the revision it is about to start
RouteAfterQualityCheckCounting ==
    /\ pc = "route_after_quality_check"
    /\ LET branch == RouteBranch(review_decision, revision_count, max_revisions,
                                 force_accept_reason # None)
       IN  /\ last_step' = Step("route_after_quality_check", branch, revision_count)
           /\ CASE branch = "force_accept" ->
                     /\ is_in_revision_loop' = FALSE
                     /\ workflow_completion_status' = "COMPLETED_FORCE_ACCEPT"
                     /\ pc' = "editing"
                     /\ UNCHANGED <<quality_gates_passed, force_accept_reason,
                                    final_decision_maker>>
                     /\ UNCHANGED revision_count
                [] branch = "accept" ->
                     /\ is_in_revision_loop' = FALSE
                     /\ workflow_completion_status' = "COMPLETED_ACCEPT"
                     /\ quality_gates_passed' =
                            Append(quality_gates_passed, PassedGate(review_score))
                     /\ pc' = "editing"
                     /\ UNCHANGED <<force_accept_reason, final_decision_maker>>
                     /\ UNCHANGED revision_count
                [] branch = "revise" ->
                     /\ is_in_revision_loop' = TRUE
                     /\ pc' = "revision"
                     /\ revision_count' = revision_count + 1
                     /\ UNCHANGED <<workflow_completion_status, quality_gates_passed,
                                    force_accept_reason, final_decision_maker>>
                [] OTHER ->
                     /\ force_accept_reason' =
                            IF review_decision = "REJECT" THEN "rejected" ELSE "max revisions"
                     /\ is_in_revision_loop' = FALSE
                     /\ final_decision_maker' = "PROTECTION_SYSTEM"
                     /\ workflow_completion_status' = "COMPLETED_PROTECTION"
                     /\ pc' = "editing"
                     /\ UNCHANGED quality_gates_passed
                     /\ UNCHANGED revision_count
           /\ loop_exits' = IF branch = "revise" THEN loop_exits ELSE loop_exits + 1
    /\ UNCHANGED <<draft_content, max_revisions, version_history,
                   current_version, revision_history, review_decision, review_feedback,
                   review_score, tasks_completed, errors, final_paper_content,
                   complete_paper_content, data_file_path, data_analysis_results,
                   outline_data, combined_points, qc_runs, reviewer_calls, revision_runs,
                   runs, snapshot_files, enhanced>>

RouteAfterQualityCheck ==
    /\ pc = "route_after_quality_check"
    /\ LET branch == RouteBranch(review_decision, revision_count, max_revisions,
                                 force_accept_reason # None)
       IN  /\ last_step' = Step("route_after_quality_check", branch, revision_count)
           /\ CASE branch = "force_accept" ->
                     /\ is_in_revision_loop' = FALSE
                     /\ workflow_completion_status' = "COMPLETED_FORCE_ACCEPT"
                     /\ pc' = "editing"
                     /\ UNCHANGED <<quality_gates_passed, force_accept_reason,
                                    final_decision_maker>>
                [] branch = "accept" ->
                     /\ is_in_revision_loop' = FALSE
                     /\ workflow_completion_status' = "COMPLETED_ACCEPT"
                     /\ quality_gates_passed' =
                            Append(quality_gates_passed, PassedGate(review_score))
                     /\ pc' = "editing"
                     /\ UNCHANGED <<force_accept_reason, final_decision_maker>>
                [] branch = "revise" ->
                     /\ is_in_revision_loop' = TRUE
                     /\ pc' = "revision"
                     /\ UNCHANGED <<workflow_completion_status, quality_gates_passed,
                                    force_accept_reason, final_decision_maker>>
                [] OTHER ->
                     /\ force_accept_reason' =
                            IF review_decision = "REJECT" THEN "rejected" ELSE "max revisions"
                     /\ is_in_revision_loop' = FALSE
                     /\ final_decision_maker' = "PROTECTION_SYSTEM"
                     /\ workflow_completion_status' = "COMPLETED_PROTECTION"
                     /\ pc' = "editing"
                     /\ UNCHANGED quality_gates_passed
           /\ loop_exits' = IF branch = "revise" THEN loop_exits ELSE loop_exits + 1
    /\ UNCHANGED <<draft_content, revision_count, max_revisions, version_history,
                   current_version, revision_history, review_decision, review_feedback,
                   review_score, tasks_completed, errors, final_paper_content,
                   complete_paper_content, data_file_path, data_analysis_results,
                   outline_data, combined_points, qc_runs, reviewer_calls, revision_runs,
                   runs, snapshot_files, enhanced>>

\* -------------------------------------------------------- revision_node
\* needs_data_reanalysis: whether the feedback text holds one of the data
\* keywords.  The text is not kept, so either answer is possible for a
\* non-empty feedback.
\* What the calls made during a revision can give back:
\*   analysis  (only when re-analysis runs) "ok", "empty" or "raise"
\*   writing   "ok" or "raise" (an empty chapter becomes a placeholder and
\*             still gives a draft: part of "ok")
RevisionOutcomes ==
    {[keywords |-> k, analysis |-> a, writing |-> w, msg |-> "error"] :
        k \in BOOLEAN, a \in {"ok", "empty", "raise"}, w \in {"ok", "raise"}}

\* one outcome per distinguishable run of the node: fields the run never
\* looks at are fixed
Relevant(r, reanalyse, rewrite) ==
    /\ (~reanalyse => r.analysis = "ok")
    /\ (~r.keywords => r.analysis = "ok")
    /\ ((r.analysis = "raise" \/ ~rewrite) => r.writing = "ok")

\* (mutant) the counter is bumped twice
NextRevisionCountTwice(count) == count + 2

\* revision_count as the node sets it before anything else
NextRevisionCount(count) == count + 1

\* (mutant) a revision that does not rewrite drops the draft
DraftAfterRevisionDropped(rewritten, draft, n) ==
    IF rewritten THEN RevisedDraft(n) ELSE NoDraft

\* draft_content as the node leaves it: the new text when it rewrote,
\* what it found otherwise
DraftAfterRevision(rewritten, draft, n) ==
    IF rewritten THEN RevisedDraft(n) ELSE draft

RevisionNoFeedback ==
    /\ Falsy(review_feedback)
    /\ errors' = errors \cup {ErrorOf("revision", "no feedback")}
    /\ workflow_completion_status' = "FAILED_NO_FEEDBACK"
    /\ last_step' = Step("revision", "no_feedback", revision_count)
    /\ UNCHANGED <<revision_count, version_history, current_version, draft_content,
                   data_analysis_results, combined_points, tasks_completed>>

RevisionRun ==
    /\ ~Falsy(review_feedback)
    /\ LET n == NextRevisionCount(revision_count)
           pre == save_version_to_history(version_history, current_version,
                       draft_content, VersionType("pre_revision", n), n, review_score)
       IN
       /\ revision_count' = n
       /\ UNCHANGED workflow_completion_status
       /\ \E r \in RevisionOutcomes :
            LET reanalyse == r.keywords /\ data_file_path
                reanalysed == reanalyse /\ r.analysis = "ok"
                points == combined_points \/ reanalysed
                rewrite == outline_data /\ points
                raised == (reanalyse /\ r.analysis = "raise")
                          \/ (rewrite /\ r.writing = "raise")
                rewritten == rewrite /\ ~raised
                post == save_version_to_history(pre.version_history, pre.current_version,
                            RevisedDraft(n), VersionType("revised", n), n, review_score)
            IN
            /\ Relevant(r, reanalyse, outline_data /\ points)
            /\ data_analysis_results' =
                   IF reanalysed THEN "reanalysis" ELSE data_analysis_results
            /\ combined_points' = points
            /\ draft_content' = DraftAfterRevision(rewritten, draft_content, n)
            /\ version_history' =
                   IF rewritten THEN post.version_history ELSE pre.version_history
            /\ current_version' =
                   IF rewritten THEN post.current_version ELSE pre.current_version
            /\ tasks_completed' =
                   IF raised THEN tasks_completed
                   ELSE AddTask(tasks_completed, RevisionTask(n))
            /\ errors' =
                   IF raised THEN errors \cup {ErrorOf("revision", r.msg)} ELSE errors
            /\ last_step' =
                   [Step("revision",
                         IF raised THEN "raised"
                         ELSE IF rewritten THEN "rewritten" ELSE "skipped",
                         revision_count)
                    EXCEPT !.analysis = IF reanalyse THEN r.analysis ELSE "-",
                           !.writing = IF reanalyse /\ r.analysis = "raise" THEN "-"
                                       ELSE IF rewrite THEN r.writing ELSE "-"]

Revision ==
    /\ pc = "revision"
    /\ revision_runs' = revision_runs + 1
    /\ pc' = "route_after_revision"
    /\ \/ RevisionNoFeedback
       \/ RevisionRun
    /\ UNCHANGED <<max_revisions, revision_history, review_decision, review_feedback,
                   review_score, force_accept_reason, final_decision_maker,
                   is_in_revision_loop, quality_gates_passed, final_paper_content,
                   complete_paper_content, data_file_path, outline_data,
                   qc_runs, reviewer_calls, loop_exits,
                   runs, snapshot_files, enhanced>>

\* (mutant) the router takes the exit its path map offers
route_after_revision_finished(tasks) ==
    [next |-> "finished", tasks |-> RemoveTask(tasks, Task("quality_check"))]

\* route_after_revision: clears the review mark and names quality_check,
\* whatever the revision did.  Gives back the name and tasks_completed as
\* it leaves it.
route_after_revision(tasks) ==
    [next |-> "quality_check", tasks |-> RemoveTask(tasks, Task("quality_check"))]

\* the names the conditional edges of the revision node map
RevisionPathMap == {"quality_check", "finished"}

RouteAfterRevision ==
    /\ pc = "route_after_revision"
    /\ LET r == route_after_revision(tasks_completed)
       IN  /\ tasks_completed' = r.tasks
           /\ pc' = IF r.next \notin RevisionPathMap THEN "aborted"
                    ELSE IF r.next = "finished" THEN "END"
                    ELSE r.next
           /\ last_step' = Step("route_after_revision", r.next, revision_count)
    /\ UNCHANGED <<draft_content, revision_count, max_revisions, version_history,
                   current_version, revision_history, review_decision, review_feedback,
                   review_score, force_accept_reason, final_decision_maker,
                   workflow_completion_status, is_in_revision_loop, quality_gates_passed,
                   errors, final_paper_content, complete_paper_content, data_file_path,
                   data_analysis_results, outline_data, combined_points,
                   qc_runs, reviewer_calls, revision_runs, loop_exits,
                   runs, snapshot_files, enhanced>>


\* ------------------------------------------- editing_node, citation_node
\* What the crew call of a publishing node can give back: a text ("ok"),
\* nothing ("empty"), or it raises with message msg.
CrewOutcomes ==
    {[kind |-> k, msg |-> "-"] : k \in {"ok", "empty"}}
    \cup {[kind |-> "raise", msg |-> m] : m \in ExceptionMessages}

Editing ==
    /\ pc = "editing"
    /\ pc' = "route_after_editing"
    /\ IF draft_content = NoDraft
       THEN /\ errors' = errors \cup {ErrorOf("editing", "no draft")}
            /\ last_step' = Step("editing", "no_draft", revision_count)
            /\ UNCHANGED <<final_paper_content, tasks_completed>>
       ELSE \E o \in CrewOutcomes :
            /\ last_step' = Step("editing", o.kind, revision_count)
            /\ final_paper_content' = IF o.kind = "ok" THEN "edited" ELSE "draft"
            /\ tasks_completed' =
                   IF o.kind = "empty" THEN tasks_completed
                   ELSE AddTask(tasks_completed, Task("editing"))
            /\ errors' =
                   CASE o.kind = "ok" -> errors
                     [] o.kind = "empty" -> errors \cup {ErrorOf("editing", "failed")}
                     [] OTHER -> errors \cup {ErrorOf("editing", o.msg)}
    /\ UNCHANGED <<draft_content, revision_count, max_revisions, version_history,
                   current_version, revision_history, review_decision, review_feedback,
                   review_score, force_accept_reason, final_decision_maker,
                   workflow_completion_status, is_in_revision_loop, quality_gates_passed,
                   complete_paper_content, data_file_path, data_analysis_results,
                   outline_data, combined_points, qc_runs, reviewer_calls, revision_runs,
                   loop_exits,
                   runs, snapshot_files, enhanced>>

Citation ==
    /\ pc = "citation"
    /\ pc' = "route_after_citation"
    /\ IF final_paper_content = None
       THEN /\ errors' = errors \cup {ErrorOf("citation", "no paper")}
            /\ last_step' = Step("citation", "no_paper", revision_count)
            /\ UNCHANGED <<complete_paper_content, tasks_completed>>
       ELSE \E o \in CrewOutcomes :
            /\ last_step' = Step("citation", o.kind, revision_count)
            /\ complete_paper_content' =
                   IF o.kind = "ok" THEN "with_references" ELSE "without_references"
            /\ tasks_completed' =
                   IF o.kind = "empty" THEN tasks_completed
                   ELSE AddTask(tasks_completed, Task("citation"))
            /\ errors' =
                   CASE o.kind = "ok" -> errors
                     [] o.kind = "empty" -> errors \cup {ErrorOf("citation", "failed")}
                     [] OTHER -> errors \cup {ErrorOf("citation", o.msg)}
    /\ UNCHANGED <<draft_content, revision_count, max_revisions, version_history,
                   current_version, revision_history, review_decision, review_feedback,
                   review_score, force_accept_reason, final_decision_maker,
                   workflow_completion_status, is_in_revision_loop, quality_gates_passed,
                   final_paper_content, data_file_path, data_analysis_results,
                   outline_data, combined_points, qc_runs, reviewer_calls, revision_runs,
                   loop_exits,
                   runs, snapshot_files, enhanced>>

\* ------------------------------------------------------- decision_router
\* The project plan of the run: literature is required, data analysis is
\* required when there is a data file (the default plan of
\* project_planning_node).
RequiresLiterature == TRUE
RequiresData(has_data) == has_data

\* decision_router: the next node's name and tasks_completed as it leaves
\* it (it removes 'quality_check' on one path).
decision_router(tasks, errs, decision, count, limit, has_data) ==
    LET done(name) == Completed(tasks, Task(name))
        literature_done == ~RequiresLiterature \/ done("literature_research")
        data_done == ~RequiresData(has_data) \/ done("data_analysis")
        to(name) == [next |-> name, tasks |-> tasks]
    IN  IF \E e \in errs : e = "AuthenticationError" THEN to("finished")
        ELSE IF ~done("project_planning") THEN to("literature_research")
        ELSE IF RequiresLiterature /\ ~done("literature_research") THEN to("literature_research")
        ELSE IF RequiresData(has_data) /\ ~done("data_analysis") THEN to("data_analysis")
        ELSE IF ~done("integration") THEN
                 (IF literature_done /\ data_done THEN to("integration")
                  ELSE IF ~literature_done THEN to("literature_research")
                  ELSE to("data_analysis"))
        ELSE IF ~done("writing") THEN to("writing")
        ELSE IF ~done("quality_check") THEN to("quality_check")
        ELSE IF decision = "REVISE" /\ count < limit THEN
                 (IF ~Completed(tasks, RevisionTask(count + 1)) THEN to("revision")
                  ELSE [next |-> "quality_check",
                        tasks |-> RemoveTask(tasks, Task("quality_check"))])
        ELSE IF ~done("editing") THEN to("editing")
        ELSE IF ~done("citation") THEN to("citation")
        ELSE to("finished")

\* the names each node's conditional edges map (create_hybrid_workflow)
PathMap(node) ==
    IF node = "editing" THEN {"quality_check", "revision", "citation", "finished"}
    ELSE {"quality_check", "revision", "editing", "finished"}

\* a name outside the map of the node is an error of the graph run
Target(node, name) ==
    IF name \notin PathMap(node) THEN "aborted"
    ELSE IF name = "finished" THEN "END"
    ELSE name

DecisionRouter ==
    /\ pc \in {"route_after_editing", "route_after_citation"}
    /\ LET node == IF pc = "route_after_editing" THEN "editing" ELSE "citation"
           r == decision_router(tasks_completed, errors, review_decision,
                                revision_count, max_revisions, data_file_path)
       IN  /\ pc' = Target(node, r.next)
           /\ tasks_completed' = r.tasks
           /\ last_step' = Step("decision_router", r.next, revision_count)
    /\ UNCHANGED <<draft_content, revision_count, max_revisions, version_history,
                   current_version, revision_history, review_decision, review_feedback,
                   review_score, force_accept_reason, final_decision_maker,
                   workflow_completion_status, is_in_revision_loop, quality_gates_passed,
                   errors, final_paper_content, complete_paper_content, data_file_path,
                   data_analysis_results, outline_data, combined_points,
                   qc_runs, reviewer_calls, revision_runs, loop_exits,
                   runs, snapshot_files, enhanced>>

\* ------------------------------------------------------------ the run
Next ==
    \/ QualityCheck
    \/ RouteAfterQualityCheck
    \/ Revision
    \/ RouteAfterRevision
    \/ Editing
    \/ Citation
    \/ DecisionRouter

Spec == Init /\ [][Next]_vars

\* a run with the default limit of three revisions
InitDefault == InitWith({DefaultMaxRevisions})
SpecDefault == InitDefault /\ [][Next]_vars

\* ------------------------------------------- runs sharing a directory
\* The saves of a run, in the order its nodes make them: writing_node
\* saves the draft, quality_check_node the version under review,
\* revision_node the version before and, when it rewrote, after the
\* revision.  What a run saves otherwise follows Spec; here the verdicts
\* are free.

\* save_version_to_history with auto-save: the record is appended, and the
\* snapshot file is written under the name made of version, type and goal
SaveVersion(r, run, content, version_type, files) ==
    LET saved == save_version_to_history(run.version_history, run.current_version,
                     content, version_type, run.revision_count, NoScore)
        path == SnapshotPath(saved.current_version, version_type, run.research_goal)
    IN  [run |-> [run EXCEPT !.current_version = saved.current_version,
                             !.version_history = saved.version_history],
         files |-> IF run.auto_save_enabled
                   THEN WriteFile(files, path,
                                  [run |-> r, version |-> saved.current_version])
                   ELSE files]

\* the caller builds the initial state of run r
StartRun(r) ==
    /\ runs[r].stage = "new"
    /\ \E goal \in ResearchGoals, auto \in BOOLEAN, limit \in 0..MaxRunRevisions :
          runs' = [runs EXCEPT ![r] =
                      [NotStarted EXCEPT !.stage = "writing",
                                         !.research_goal = goal,
                                         !.auto_save_enabled = auto,
                                         !.max_revisions = limit]]
    /\ UNCHANGED snapshot_files
    /\ UNCHANGED <<loopVars, enhanced>>

\* writing_node of run r: the draft is saved
RunWriting(r) ==
    /\ runs[r].stage = "writing"
    /\ LET s == SaveVersion(r, runs[r], InitialDraft, VersionType("draft", 0),
                            snapshot_files)
       IN  /\ runs' = [runs EXCEPT ![r] = [s.run EXCEPT !.stage = "quality_check"]]
           /\ snapshot_files' = s.files
    /\ UNCHANGED <<loopVars, enhanced>>

\* quality_check_node of run r: the version under review is saved; the
\* run goes on to a revision (REVISE below the limit) or leaves the loop
RunQualityCheck(r) ==
    /\ runs[r].stage = "quality_check"
    /\ LET run == runs[r]
           draft == IF run.revision_count = 0 THEN InitialDraft
                    ELSE RevisedDraft(run.revision_count)
           s == SaveVersion(r, run, draft, ReviewVersionType(run.revision_count),
                            snapshot_files)
       IN  /\ snapshot_files' = s.files
           /\ \E stage \in {"revision", "finished"} :
                 /\ stage = "revision" => ~LimitReached(run.revision_count, run.max_revisions)
                 /\ runs' = [runs EXCEPT ![r] = [s.run EXCEPT !.stage = stage]]
    /\ UNCHANGED <<loopVars, enhanced>>

\* revision_node of run r: the count is raised, the version before the
\* revision is saved and, when the draft was rewritten, the new one
RunRevision(r) ==
    /\ runs[r].stage = "revision"
    /\ LET n == NextRevisionCount(runs[r].revision_count)
           run == [runs[r] EXCEPT !.revision_count = n]
           draft == IF n = 1 THEN InitialDraft ELSE RevisedDraft(n - 1)
           pre == SaveVersion(r, run, draft, VersionType("pre_revision", n),
                              snapshot_files)
           post == SaveVersion(r, pre.run, RevisedDraft(n), VersionType("revised", n),
                               pre.files)
       IN  \E rewritten \in BOOLEAN :
              LET s == IF rewritten THEN post ELSE pre
              IN  /\ runs' = [runs EXCEPT ![r] = [s.run EXCEPT !.stage = "quality_check"]]
                  /\ snapshot_files' = s.files
    /\ UNCHANGED <<loopVars, enhanced>>

NextRuns ==
    \/ \E r \in Runs : StartRun(r)
    \/ \E r \in Runs : RunWriting(r)
    \/ \E r \in Runs : RunQualityCheck(r)
    \/ \E r \in Runs : RunRevision(r)

InitRuns ==
    /\ InitWith({DefaultMaxRevisions})
    /\ draft_content = InitialDraft
    /\ version_history = <<DraftRecord>>
    /\ ~data_file_path

SpecRuns == InitRuns /\ [][NextRuns]_vars

\* ------------------------------------------------ EnhancedWorkflow.run
\* run() up to the first review: research, synthesis, outline and writing
\* (any of them can fail, which ends the run), then the draft is saved
EnhancedWrite ==
    /\ enhanced.pc \in {"idle", "done", "failed"}
    /\ enhanced.run < MaxEnhancedRuns
    /\ \E ok \in BOOLEAN :
          enhanced' =
              [enhanced EXCEPT
                  !.run = @ + 1,
                  !.performed = 0, !.cycle2 = "-", !.indicated2 = "-",
                  !.versions = IF ok THEN save_version(@, "initial_draft",
                                                       enhanced.revision_count)
                               ELSE @,
                  !.pc = IF ok THEN "review_1" ELSE "failed"]
    /\ UNCHANGED <<loopVars, snapshotVars>>

\* where run() goes when the first cycle is over
AfterFirstCycle(count, limit) ==
    IF SecondCycleRuns(count, limit) THEN "review_2" ELSE "polish"

\* a review cycle up to its decision: the review, then _needs_revision
EnhancedReview(cycle) ==
    /\ enhanced.pc = IF cycle = 1 THEN "review_1" ELSE "review_2"
    /\ \E kickoff \in ReviewKickoffs :
          LET d == needs_revision(enhanced.revision_count, enhanced.max_revisions,
                                  comprehensive_review(kickoff))
              after == AfterFirstCycle(d.revision_count, enhanced.max_revisions)
          IN  enhanced' =
                  [enhanced EXCEPT
                      !.revision_count = d.revision_count,
                      !.indicated2 = IF cycle = 2
                                     THEN (IF d.indicated THEN "yes" ELSE "no")
                                     ELSE @,
                      !.cycle2 = IF cycle = 1 /\ ~d.result
                                 THEN (IF after = "review_2" THEN "run" ELSE "skipped")
                                 ELSE @,
                      !.pc = IF cycle = 1
                             THEN (IF d.result THEN "revise_1" ELSE after)
                             ELSE (IF d.result THEN "revise_2" ELSE "polish")]
    /\ UNCHANGED <<loopVars, snapshotVars>>

\* the revision of a cycle: _perform_revision, which raises when the crew
\* brings nothing, and the save of the revised text
EnhancedRevise(cycle) ==
    /\ enhanced.pc = IF cycle = 1 THEN "revise_1" ELSE "revise_2"
    /\ \E ok \in BOOLEAN :
          LET after == AfterFirstCycle(enhanced.revision_count, enhanced.max_revisions)
          IN  enhanced' =
                  IF ok
                  THEN [enhanced EXCEPT
                           !.performed = @ + 1,
                           !.versions = save_version(@,
                                            IF cycle = 1 THEN "revision_1" ELSE "revision_2",
                                            enhanced.revision_count),
                           !.cycle2 = IF cycle = 1
                                      THEN (IF after = "review_2" THEN "run" ELSE "skipped")
                                      ELSE @,
                           !.pc = IF cycle = 1 THEN after ELSE "polish"]
                  ELSE [enhanced EXCEPT !.pc = "failed"]
    /\ UNCHANGED <<loopVars, snapshotVars>>

\* editing and citations, then the final version is saved
EnhancedPolish ==
    /\ enhanced.pc = "polish"
    /\ \E ok \in BOOLEAN :
          enhanced' =
              IF ok
              THEN [enhanced EXCEPT
                       !.versions = save_version(@, "final", enhanced.revision_count),
                       !.pc = "done"]
              ELSE [enhanced EXCEPT !.pc = "failed"]
    /\ UNCHANGED <<loopVars, snapshotVars>>

NextEnhanced ==
    \/ EnhancedWrite
    \/ \E cycle \in {1, 2} : EnhancedReview(cycle)
    \/ \E cycle \in {1, 2} : EnhancedRevise(cycle)
    \/ EnhancedPolish

SpecEnhanced == InitRuns /\ [][NextEnhanced]_vars

\* ================================================================ claims
\* the entries the reviewer's verdicts left in the history, in order
IsReviewerEntry(e) == e.decision_maker = "AI_REVIEWER"
ReviewerEntries == SelectSeq(revision_history, IsReviewerEntry)
\* every reviewer call so far came back with a verdict (none raised)
NoReviewerException == reviewer_calls = Len(ReviewerEntries)
\* the review router has chosen editing at least once
LoopLeft == loop_exits > 0

\* C1: for every max_revisions = N and every reviewer, the loop reaches a
\* terminal state (the review router leaves the loop) within N + 1
\* executions of the quality check: an execution beyond the (N+1)-th
\* only happens after the loop was left.
C1_TerminatesWithinBound ==
    qc_runs > max_revisions + 1 => LoopLeft

\* C2: a review cycle that starts with revision_count >= max_revisions
\* force-accepts (for a non-empty draft in the node, before any reviewer
\* verdict) and is routed to editing, never to revision.
C2_ForcedAcceptPrecedence ==
    /\ (/\ last_step.node = "quality_check"
        /\ last_step.count >= max_revisions
        /\ draft_content # NoDraft)
       => /\ last_step.outcome = "force_accept"
          /\ review_decision = "ACCEPT"
          /\ force_accept_reason # None
          /\ workflow_completion_status = "COMPLETED_FORCE_ACCEPT"
    /\ (/\ last_step.node = "route_after_quality_check"
        /\ last_step.count >= max_revisions)
       => /\ pc = "editing"
          /\ force_accept_reason # None
          /\ last_step.outcome # "revise"
          /\ (draft_content # NoDraft => last_step.outcome = "force_accept")

\* a cycle at the limit, reached after revisions, has been routed
C2_Witness ==
    /\ last_step.node = "route_after_quality_check"
    /\ last_step.count >= max_revisions
    /\ last_step.count > 0
    /\ pc = "editing"


\* the reviewer's k-th verdict asked for a revision and said why
RevisedWithFeedback(k) ==
    /\ ReviewerEntries[k].decision = "REVISE"
    /\ ReviewerEntries[k].feedback # ""
\* the number of history entries with the given decision
CountDecision(d) ==
    Cardinality({i \in 1..Len(revision_history) : revision_history[i].decision = d})

\* Scenario A: max_revisions = 3, a draft, a reviewer whose first three
\* calls return REVISE (with feedback) and whose fourth returns ACCEPT; the
\* loop has been left.
ScenarioA ==
    /\ max_revisions = 3
    /\ draft_content # NoDraft
    /\ NoReviewerException
    /\ Len(ReviewerEntries) >= 3
    /\ \A k \in 1..3 : RevisedWithFeedback(k)
    /\ (Len(ReviewerEntries) >= 4 => ReviewerEntries[4].decision = "ACCEPT")
    /\ LoopLeft

\* C3 as stated: in scenario A the run ends with COMPLETED_ACCEPT,
\* revision_count = 3 and exactly three REVISE entries.
C3_ScenarioA_Accept ==
    ScenarioA =>
        /\ workflow_completion_status = "COMPLETED_ACCEPT"
        /\ revision_count = 3
        /\ CountDecision("REVISE") = 3

\* C3 amended: in scenario A the fourth review cycle force-accepts without
\* a fourth reviewer call: the run ends with COMPLETED_FORCE_ACCEPT,
\* revision_count = 3 and exactly three REVISE entries, followed by the
\* FORCE_ACCEPT entry of the system.
C3_ScenarioA_ForceAccept ==
    ScenarioA =>
        /\ workflow_completion_status = "COMPLETED_FORCE_ACCEPT"
        /\ revision_count = 3
        /\ CountDecision("REVISE") = 3
        /\ reviewer_calls = 3
        /\ revision_history[4].decision = "FORCE_ACCEPT"
        /\ revision_history[4].decision_maker = "SYSTEM"

C3_Witness ==
    /\ ScenarioA
    /\ pc = "END"

\* Scenario B: a draft and a reviewer that always returns REVISE with
\* feedback; the loop has been left.
ScenarioB ==
    /\ draft_content # NoDraft
    /\ NoReviewerException
    /\ \A k \in 1..Len(ReviewerEntries) : RevisedWithFeedback(k)
    /\ LoopLeft

RejectedBelowLimit ==
    /\ last_step.node = "route_after_quality_check"
    /\ review_decision = "REJECT"
    /\ draft_content # NoDraft
    /\ last_step.count < max_revisions

C5_RejectProtection ==
    RejectedBelowLimit =>
        /\ pc = "editing"
        /\ last_step.outcome = "protect"
        /\ force_accept_reason = "rejected"
        /\ final_decision_maker = "PROTECTION_SYSTEM"
        /\ workflow_completion_status = "COMPLETED_PROTECTION"
        /\ revision_count = last_step.count

\* a REJECT after a first revision, routed
C5_Witness ==
    /\ RejectedBelowLimit
    /\ last_step.count = 1

\* Scenario C: max_revisions = 3, a draft, the reviewer's first call
\* returns REJECT; the review router has run.
ScenarioC ==
    /\ max_revisions = 3
    /\ draft_content # NoDraft
    /\ reviewer_calls >= 1
    /\ Len(ReviewerEntries) >= 1
    /\ ReviewerEntries[1].decision = "REJECT"
    /\ ReviewerEntries[1].revision_number = 1
    /\ LoopLeft

\* C6: in scenario C the status is COMPLETED_PROTECTION, revision_count is
\* 0 and the history holds exactly one entry, up to the end of the run.
C6_ScenarioC ==
    ScenarioC =>
        /\ workflow_completion_status = "COMPLETED_PROTECTION"
        /\ revision_count = 0
        /\ Len(revision_history) = 1
        /\ reviewer_calls = 1
        /\ revision_runs = 0

C6_Witness ==
    /\ ScenarioC
    /\ pc = "END"
    /\ complete_paper_content = "with_references"


\* C7: with an empty draft at the review step the reviewer is not called,
\* no history entry and no version record is appended, the status is and
\* stays FAILED_NO_CONTENT, and no further review is attempted.
C7_EmptyDraftFails ==
    (draft_content = NoDraft /\ qc_runs >= 1) =>
        /\ reviewer_calls = 0
        /\ revision_history = <<>>
        /\ version_history = <<>>
        /\ workflow_completion_status = "FAILED_NO_CONTENT"
        /\ qc_runs = 1

\* C8: once the review loop has been left (ACCEPT, forced accept or
\* protective accept), the quality check is not executed again.
C8_NoReviewAfterLoop ==
    LoopLeft => pc # "quality_check"

\* C9: the i-th version record has version i, and current_version is the
\* number of records: each save appends one record numbered one more than
\* the version before.
C9_ContiguousVersions ==
    /\ current_version = Len(version_history)
    /\ \A i \in 1..Len(version_history) : version_history[i].version = i

\* a run that has saved the draft, a review, a pre-revision and a revised
\* version, and more
C9_Witness ==
    /\ Len(version_history) >= 5
    /\ \E i \in 1..Len(version_history) : version_history[i].type.kind = "revised"

\* C10 as stated: every execution of revision_node leaves revision_count
\* one higher than it found it.
C10_EveryRevisionCounts ==
    last_step.node = "revision" => revision_count = last_step.count + 1

\* C10 amended: revision_count never decreases and only revision_node
\* changes it; an execution of revision_node that finds review feedback
\* raises it by exactly 1, before the revision executor is called (the
\* pre-revision snapshot taken before the call carries the new count, and
\* the increment stays when the executor raises); an execution that finds
\* no feedback leaves it as it was.
C10_RevisionCounting ==
    /\ [][/\ revision_count' >= revision_count
          /\ (pc # "revision" => revision_count' = revision_count)
          /\ (pc = "revision" /\ ~Falsy(review_feedback)
                => revision_count' = revision_count + 1)
          /\ (pc = "revision" /\ Falsy(review_feedback)
                => revision_count' = revision_count)]_vars
    /\ [](\A i \in 1..Len(version_history) :
            version_history[i].type.kind = "pre_revision"
                => version_history[i].revision_count = version_history[i].type.n)
    /\ [](last_step.node = "revision" /\ last_step.outcome # "no_feedback"
            => /\ revision_count = last_step.count + 1
               /\ version_history[Len(version_history)].revision_count = revision_count)

\* a revision whose executor raised: the count is already one higher
C10_Witness ==
    /\ last_step.node = "revision"
    /\ last_step.outcome = "raised"
    /\ revision_count = last_step.count + 1
    /\ revision_count = 2

\* C11: the revision history is append-only and holds one entry per review
\* cycle: after M review cycles on a draft it holds exactly M entries, and
\* a step never removes or changes an entry already appended.
C11_HistoryAppendOnly ==
    /\ [](draft_content # NoDraft => Len(revision_history) = qc_runs)
    /\ [][/\ Len(revision_history') >= Len(revision_history)
          /\ SubSeq(revision_history', 1, Len(revision_history)) = revision_history]_vars

C13_RunUniqueSnapshots ==
    \A r \in Runs :
        runs[r].auto_save_enabled =>
            \A i \in 1..Len(runs[r].version_history) :
                LET rec == runs[r].version_history[i]
                    path == SnapshotPath(rec.version, rec.type, runs[r].research_goal)
                IN  /\ path \in DOMAIN snapshot_files
                    /\ snapshot_files[path] = [run |-> r, version |-> rec.version]

\* a review cycle on a draft that starts at or above the revision limit
AtLimit == draft_content # NoDraft /\ revision_count >= max_revisions

\* C14: a forced accept (a review cycle on a draft with revision_count >=
\* max_revisions) sets force_accept_reason, final_decision_maker SYSTEM and
\* status COMPLETED_FORCE_ACCEPT, appends exactly one history entry, with
\* decision FORCE_ACCEPT, score 7 and decision_maker SYSTEM, and does not
\* call the reviewer; the router keeps all of it and goes to editing.
C14_ForceAccept ==
    /\ [][(pc = "quality_check" /\ AtLimit) =>
            /\ force_accept_reason' # None
            /\ final_decision_maker' = "SYSTEM"
            /\ workflow_completion_status' = "COMPLETED_FORCE_ACCEPT"
            /\ Len(revision_history') = Len(revision_history) + 1
            /\ SubSeq(revision_history', 1, Len(revision_history)) = revision_history
            /\ LET e == revision_history'[Len(revision_history')]
               IN  /\ e.decision = "FORCE_ACCEPT"
                   /\ e.quality_score = 7
                   /\ e.decision_maker = "SYSTEM"
                   /\ e.revision_number = revision_count + 1
            /\ reviewer_calls' = reviewer_calls]_vars
    /\ []((last_step.node = "route_after_quality_check" /\ AtLimit) =>
            /\ last_step.outcome = "force_accept"
            /\ pc = "editing"
            /\ force_accept_reason # None
            /\ final_decision_maker = "SYSTEM"
            /\ workflow_completion_status = "COMPLETED_FORCE_ACCEPT"
            /\ revision_history[Len(revision_history)].decision = "FORCE_ACCEPT")

\* a forced accept after two revisions, made and routed
C14_Witness ==
    /\ last_step.node = "route_after_quality_check"
    /\ last_step.outcome = "force_accept"
    /\ AtLimit
    /\ revision_count = 2
    /\ reviewer_calls = 2
    /\ final_decision_maker = "SYSTEM"

\* the reviewer has just returned ACCEPT in a cycle below the limit
ReviewerAccepted ==
    /\ last_step.node = "quality_check"
    /\ last_step.outcome = "json"
    /\ review_decision = "ACCEPT"
    /\ revision_count < max_revisions

\* C15: when the reviewer returns ACCEPT while revision_count <
\* max_revisions, the router sets the status COMPLETED_ACCEPT, appends one
\* entry carrying the reviewer's score to quality_gates_passed, leaves
\* force_accept_reason unset and goes to editing.
C15_ReviewerAccept ==
    /\ [][(pc = "route_after_quality_check" /\ ReviewerAccepted) =>
            /\ workflow_completion_status' = "COMPLETED_ACCEPT"
            /\ Len(quality_gates_passed') = Len(quality_gates_passed) + 1
            /\ SubSeq(quality_gates_passed', 1, Len(quality_gates_passed))
                   = quality_gates_passed
            /\ quality_gates_passed'[Len(quality_gates_passed')].score
                   = revision_history[Len(revision_history)].quality_score
            /\ force_accept_reason' = None
            /\ pc' = "editing"]_vars
    /\ []((last_step.node = "route_after_quality_check" /\ last_step.outcome = "accept")
            => /\ workflow_completion_status = "COMPLETED_ACCEPT"
               /\ force_accept_reason = None
               /\ quality_gates_passed # <<>>
               /\ pc = "editing")

\* an ACCEPT of the reviewer after one revision, routed
C15_Witness ==
    /\ last_step.node = "route_after_quality_check"
    /\ last_step.outcome = "accept"
    /\ revision_count = 1
    /\ max_revisions = 2
    /\ Len(quality_gates_passed) = 1
    /\ quality_gates_passed[1].score = 8

\* C16: revision_node is executed only directly after a review cycle whose
\* verdict was REVISE with revision_count < max_revisions: only the review
\* router hands over to it, and decision_router (after editing or
\* citation) never names it.
C16_RevisionOnlyAfterRevise ==
    /\ [][pc' = "revision" =>
            /\ pc = "route_after_quality_check"
            /\ last_step.node = "quality_check"
            /\ review_decision = "REVISE"
            /\ revision_count < max_revisions]_vars
    /\ [](pc = "revision" =>
            /\ last_step.node = "route_after_quality_check"
            /\ last_step.outcome = "revise"
            /\ review_decision = "REVISE"
            /\ revision_count < max_revisions)
    /\ [](last_step.node = "decision_router" => last_step.outcome # "revision")
    /\ [](last_step.node = "revision" => last_step.count < max_revisions)

\* a second revision about to run, after a reviewer call that raised
C16_Witness ==
    /\ pc = "revision"
    /\ revision_count = 1
    /\ max_revisions = 2
    /\ ~NoReviewerException

\* C17: every execution of quality_check_node on a non-empty draft appends
\* exactly one version record, of type review_<revision_count + 1>, holding
\* the draft; it is saved before the limit check and before the reviewer
\* is called, so the forced-accept cycle and a cycle whose reviewer call
\* raises have it too, and it carries the score of the review before.
C17_ReviewSnapshot ==
    /\ [][(pc = "quality_check" /\ draft_content # NoDraft) =>
            /\ Len(version_history') = Len(version_history) + 1
            /\ SubSeq(version_history', 1, Len(version_history)) = version_history
            /\ LET rec == version_history'[Len(version_history')]
               IN  /\ rec.type = [kind |-> "review", n |-> revision_count + 1]
                   /\ rec.content = draft_content
                   /\ rec.revision_count = revision_count
                   /\ rec.review_score = review_score]_vars
    /\ [](last_step.node = "quality_check"
            /\ last_step.outcome \in {"force_accept", "raise", "json", "empty",
                                      "plaintext", "badjson"}
            => /\ version_history # <<>>
               /\ version_history[Len(version_history)].type
                      = [kind |-> "review", n |-> last_step.count + 1]
               /\ version_history[Len(version_history)].content = draft_content)

\* the forced-accept cycle after two revisions has saved review_3
C17_Witness ==
    /\ last_step.node = "quality_check"
    /\ last_step.outcome = "force_accept"
    /\ revision_count = 2
    /\ version_history[Len(version_history)].type = [kind |-> "review", n |-> 3]

\* C18: a revision that rewrites the draft appends exactly two version
\* records: pre_revision_<n> holding the draft as it was, then revised_<n>
\* holding the new draft, n being revision_count + 1, the count the node
\* sets; the draft is replaced as a whole by the new text.
C18_RevisionRecords ==
    /\ [][(pc = "revision" /\ last_step'.outcome = "rewritten") =>
            LET n == revision_count + 1
                k == Len(version_history)
            IN  /\ revision_count' = n
                /\ Len(version_history') = k + 2
                /\ SubSeq(version_history', 1, k) = version_history
                /\ version_history'[k + 1].type = [kind |-> "pre_revision", n |-> n]
                /\ version_history'[k + 1].content = draft_content
                /\ version_history'[k + 1].revision_count = n
                /\ version_history'[k + 2].type = [kind |-> "revised", n |-> n]
                /\ version_history'[k + 2].content = draft_content'
                /\ version_history'[k + 2].revision_count = n
                /\ draft_content' = RevisedDraft(n)
                /\ draft_content' # draft_content]_vars
    /\ []((last_step.node = "revision" /\ last_step.outcome = "rewritten") =>
            /\ Len(version_history) >= 2
            /\ version_history[Len(version_history)].type
                   = [kind |-> "revised", n |-> revision_count]
            /\ version_history[Len(version_history)].content = draft_content
            /\ version_history[Len(version_history) - 1].type
                   = [kind |-> "pre_revision", n |-> revision_count])

\* the second revision has rewritten the draft of the first
C18_Witness ==
    /\ last_step.node = "revision"
    /\ last_step.outcome = "rewritten"
    /\ revision_count = 2
    /\ draft_content = RevisedDraft(2)
    /\ version_history[Len(version_history) - 1].content = RevisedDraft(1)

\* the revision that just ran did not produce a new draft: a call raised,
\* or the outline or the points needed for rewriting were missing
RegenerationFailed(step) ==
    step.node = "revision" /\ step.outcome \in {"raised", "skipped"}

\* C19: when regeneration fails during a revision, the draft is left as it
\* was, revision_count keeps its incremented value, the completion status
\* is not touched, and the next node to run is the review.
C19_RegenerationFailure ==
    /\ [][(pc = "revision" /\ RegenerationFailed(last_step')) =>
            /\ draft_content' = draft_content
            /\ revision_count' = revision_count + 1
            /\ workflow_completion_status' = workflow_completion_status
            /\ pc' = "route_after_revision"]_vars
    /\ [][RegenerationFailed(last_step) =>
            /\ pc' = "quality_check"
            /\ draft_content' = draft_content
            /\ revision_count' = revision_count
            /\ workflow_completion_status' = workflow_completion_status]_vars
    /\ [](RegenerationFailed(last_step) =>
            /\ revision_count = last_step.count + 1
            /\ workflow_completion_status \notin
                   {"COMPLETED_ACCEPT", "COMPLETED_FORCE_ACCEPT", "COMPLETED_PROTECTION"})

\* a revision without an outline: nothing rewritten, the count raised
C19_Witness ==
    /\ RegenerationFailed(last_step)
    /\ last_step.outcome = "skipped"
    /\ ~outline_data
    /\ revision_count = 1
    /\ draft_content = InitialDraft
    /\ pc = "route_after_revision"

\* the review that just ran had a reviewer failure: no result, a response
\* without a JSON object, JSON that does not parse, or a call that raised
ReviewerFailed(step) ==
    step.node = "quality_check"
    /\ step.outcome \in {"empty", "plaintext", "badjson", "raise"}

\* C20: every reviewer failure becomes a verdict REVISE with non-empty
\* feedback: the review step returns normally to its router, leaves the
\* completion status alone, and the router sends the run to a revision.
C20_ReviewerFailureRevises ==
    /\ [][(pc = "quality_check" /\ ReviewerFailed(last_step')) =>
            /\ review_decision' = "REVISE"
            /\ ~Falsy(review_feedback')
            /\ workflow_completion_status' = workflow_completion_status
            /\ pc' = "route_after_quality_check"]_vars
    /\ [][ReviewerFailed(last_step) =>
            /\ last_step'.outcome = "revise"
            /\ pc' = "revision"
            /\ workflow_completion_status' = workflow_completion_status]_vars
    /\ [](ReviewerFailed(last_step) =>
            /\ review_decision = "REVISE"
            /\ review_feedback = "text"
            /\ workflow_completion_status \notin {"FAILED_NO_CONTENT"})

\* a response with broken JSON in the review after the first revision
C20_Witness ==
    /\ ReviewerFailed(last_step)
    /\ last_step.outcome = "badjson"
    /\ last_step.count = 1
    /\ review_decision = "REVISE"
    /\ review_score = DefaultScore

\* C21: every review cycle with a degraded verdict (reviewer output that
\* cannot be parsed, an empty result, or a reviewer call that raised)
\* appends one entry for that cycle to the revision history.
C21_DegradedCyclesLogged ==
    [][(pc = "quality_check" /\ ReviewerFailed(last_step')) =>
          /\ Len(revision_history') = Len(revision_history) + 1
          /\ revision_history'[Len(revision_history')].revision_number
                 = revision_count + 1
          /\ revision_history'[Len(revision_history')].decision = "REVISE"]_vars

\* C22: the revision_number fields number the entries of the revision
\* history in order, from 1: the k-th entry has revision_number k, without
\* gap and without repetition.
C22_RevisionNumbersInOrder ==
    \A k \in 1..Len(revision_history) : revision_history[k].revision_number = k

\* C23: a revision step that finds no review feedback sets the status
\* FAILED_NO_FEEDBACK and leaves revision_count, the draft and the version
\* history as they were; after it the loop is not entered again: no review
\* and no revision runs once the status is FAILED_NO_FEEDBACK.
C23_NoFeedbackStops ==
    /\ [][(pc = "revision" /\ Falsy(review_feedback)) =>
            /\ workflow_completion_status' = "FAILED_NO_FEEDBACK"
            /\ revision_count' = revision_count
            /\ draft_content' = draft_content
            /\ version_history' = version_history]_vars
    /\ [][workflow_completion_status = "FAILED_NO_FEEDBACK" =>
            last_step'.node \notin {"quality_check", "revision"}]_vars

\* the data re-analysis of the revision that just ran failed: the call
\* raised, or it returned nothing
ReanalysisFailed(step) ==
    step.node = "revision" /\ step.analysis \in {"raise", "empty"}

\* C24: a failure of the data re-analysis inside a revision does not abort
\* the revision: with an outline and the points of before, the rewriting
\* of the draft is still carried out, with the previous analysis results,
\* and gives the new draft unless the rewriting itself fails.
C24_ReanalysisFailureRewrites ==
    [][(pc = "revision" /\ ReanalysisFailed(last_step')
            /\ outline_data /\ combined_points) =>
          /\ last_step'.writing # "-"
          /\ data_analysis_results' = data_analysis_results
          /\ (last_step'.writing = "ok" =>
                 draft_content' = RevisedDraft(revision_count + 1))]_vars

\* C25: the review step never changes the draft or revision_count: across
\* every execution of quality_check_node and of route_after_quality_check
\* (accept, revise, reject, forced accept, empty draft, reviewer exception)
\* draft_content and revision_count are after it what they were before.
C25_ReviewFrame ==
    [][(pc = "quality_check" \/ pc = "route_after_quality_check") =>
          /\ draft_content' = draft_content
          /\ revision_count' = revision_count]_vars

\* a review of the first revision's draft, rejected and routed: the draft
\* and the count are those of the revision
C25_Witness ==
    /\ last_step.node = "route_after_quality_check"
    /\ last_step.outcome = "protect"
    /\ last_step.count = 1
    /\ revision_count = 1
    /\ draft_content = RevisedDraft(1)
    /\ version_history[Len(version_history)].content = RevisedDraft(1)


\* a version of the given type is among the instance's saved versions
EnhancedSaved(version_type) ==
    \E k \in 1..Len(enhanced.versions) : enhanced.versions[k].type = version_type

\* C26: when the first run() of a fresh EnhancedWorkflow has finished, its
\* second review cycle has run (fewer than max_revisions revisions were
\* counted after the first cycle); if that second review indicated that a
\* revision is needed, a second revision was performed and saved as
\* revision_2; and revision_count equals the number of revisions the run
\* performed.
C26_SecondCycleRevises ==
    (enhanced.run = 1 /\ enhanced.pc = "done") =>
        /\ enhanced.cycle2 = "run"
        /\ (enhanced.indicated2 = "yes" => EnhancedSaved("revision_2"))
        /\ enhanced.revision_count = enhanced.performed


\* C27: in every reachable state of a run started with revision_count = 0
\* and max_revisions = N >= 0, revision_count <= max_revisions; and
\* revision_node never starts once revision_count has reached max_revisions.
C27_CountWithinLimit ==
    /\ [](revision_count <= max_revisions)
    /\ [][last_step'.node = "revision" /\ last_step' # last_step
             => revision_count < max_revisions]_vars

\* a revision has brought the count to a limit of two
C27_Witness ==
    /\ last_step.node = "revision"
    /\ last_step.count = 1
    /\ revision_count = 2
    /\ max_revisions = 2


\* C28: completion status and decision attribution agree in every
\* reachable state: COMPLETED_FORCE_ACCEPT comes with final_decision_maker
\* SYSTEM and a force_accept_reason, COMPLETED_PROTECTION with
\* final_decision_maker PROTECTION_SYSTEM and a force_accept_reason, and
\* COMPLETED_ACCEPT with no force_accept_reason.
C28_StatusAttribution ==
    /\ workflow_completion_status = "COMPLETED_FORCE_ACCEPT"
          => final_decision_maker = "SYSTEM" /\ force_accept_reason # None
    /\ workflow_completion_status = "COMPLETED_PROTECTION"
          => final_decision_maker = "PROTECTION_SYSTEM" /\ force_accept_reason # None
    /\ workflow_completion_status = "COMPLETED_ACCEPT"
          => force_accept_reason = None


\* the node before was a review cycle in which the reviewer itself gave a
\* verdict, and that verdict was ACCEPT
ReviewerItselfAccepted ==
    /\ last_step.node = "quality_check"
    /\ last_step.outcome \notin {"force_accept", "no_content", "raise"}
    /\ revision_history # <<>>
    /\ revision_history[Len(revision_history)].decision_maker = "AI_REVIEWER"
    /\ revision_history[Len(revision_history)].decision = "ACCEPT"
    /\ review_decision = "ACCEPT"
    /\ force_accept_reason = None

\* C29: quality_gates_passed gains an entry only in the review router's
\* step after a cycle in which the reviewer itself returned ACCEPT; a forced
\* accept at the revision limit (review_decision ACCEPT set by the node)
\* and a protective accept on REJECT leave quality_gates_passed as it was.
C29_GateOnlyOnReviewerAccept ==
    /\ [][quality_gates_passed' # quality_gates_passed =>
            /\ pc = "route_after_quality_check"
            /\ ReviewerItselfAccepted]_vars
    /\ [][(pc = "route_after_quality_check"
              /\ (force_accept_reason # None \/ review_decision = "REJECT"))
            => quality_gates_passed' = quality_gates_passed]_vars
    /\ []((last_step.node = "route_after_quality_check"
              /\ last_step.outcome \in {"force_accept", "protect"}
              /\ loop_exits = 1)
            => quality_gates_passed = <<>>)

\* a first-cycle ACCEPT of the reviewer, routed: the gate holds its entry
C29_Witness ==
    /\ last_step.node = "route_after_quality_check"
    /\ last_step.outcome = "accept"
    /\ last_step.count = 0
    /\ max_revisions = 1
    /\ quality_gates_passed = <<PassedGate(8)>>
    /\ revision_history[Len(revision_history)].decision = "ACCEPT"


\* the node before was a review cycle whose reviewer gave a verdict with a
\* decision that is none of ACCEPT, REVISE and REJECT
UndocumentedVerdict ==
    /\ last_step.node = "quality_check"
    /\ last_step.outcome \notin {"force_accept", "no_content", "raise"}
    /\ revision_history # <<>>
    /\ revision_history[Len(revision_history)].decision_maker = "AI_REVIEWER"
    /\ revision_history[Len(revision_history)].decision
           \notin {"ACCEPT", "REVISE", "REJECT"}

\* C30: after a verdict whose decision is none of ACCEPT, REVISE and REJECT
\* the review router ends the loop in that same cycle with a protective
\* forced accept: the status becomes COMPLETED_PROTECTION, the run goes to
\* editing, and no revision is started.
C30_UnknownDecisionProtected ==
    [][(pc = "route_after_quality_check" /\ UndocumentedVerdict) =>
          /\ workflow_completion_status' = "COMPLETED_PROTECTION"
          /\ final_decision_maker' = "PROTECTION_SYSTEM"
          /\ pc' = "editing"
          /\ revision_runs' = revision_runs
          /\ revision_count' = revision_count]_vars

====
